---- MODULE Spec2Model ----
(***************************************************************************)
(* Model of benchdnn's graph input displacer                               *)
(* (tests/benchdnn/graph/input_displacer.cpp): the constructor of          *)
(* partition_data_displacer_t, which scans a partition for the Dequantize  *)
(* boundaries feeding its main ops, and displace_input_data, which fills   *)
(* a boundary tensor with quantization-friendly data.                      *)
(***************************************************************************)
EXTENDS Integers, Sequences, FiniteSets, TLC

VARIABLES
    dg,                 \* deserialized_graph: the sequence of ops (dg.ops_)
    dg_set,             \* whether the displacer's dg_ pointer is set
    op_ids_set,         \* op_ids_set_: the ids of the partition's ops
    quantize_displace,  \* quantize_displace_: tensor id -> (aop, i, lt)
    walks,              \* history: the backward walks of the scan, in order
    mem,                \* contents of the caller's target buffer
    call,               \* the last displace_input_data call and its outcome
    perm,               \* state of the StaticTranspose order inversion
    wk                  \* state of one backward walk of the scan, by iteration

vars ==
    <<dg, dg_set, op_ids_set, quantize_displace, walks, mem, call, perm, wk>>

----------------------------------------------------------------------------
(* Bounds *)

\* Largest number of ops in a graph.
MaxOps == 3

\* Largest length of a StaticTranspose order.
MaxPermLen == 3

----------------------------------------------------------------------------
(* Kind vocabularies *)

\* The scanner's set of main op kinds, spelled as in the source.
main_op_kind ==
    {"Convolution", "ConvTranspose", "AvgPool", "MaxPool", "MatMul", "Add",
     "Divide", "Maximum", "Minimum", "Multiply", "Substract"}

\* Variant: Dequantize left out of the pass-through kinds.
go_through_op_kind_no_dq ==
    {"StaticTranspose", "StaticReshape", "TypeCast", "Quantize"}

\* The scanner's set of kinds the walk may pass through.
go_through_op_kind ==
    {"StaticTranspose", "StaticReshape", "TypeCast", "Quantize", "Dequantize"}

\* Kinds of the ops the model's graphs are built from: one-input ops and
\* two-input ops.  "Subtract" is the library's name of elementwise subtract.
UnaryKinds == {"Dequantize", "StaticTranspose"}
BinaryKinds == {"MatMul", "Subtract"}

\* The order attribute every StaticTranspose of a model graph carries.
TransposeOrder == <<1, 0, 2>>

----------------------------------------------------------------------------
(* Graph: logical tensors, ops, producer lookup *)

\* A logical tensor descriptor (id_ and data_type_).
LT(id, dt) == [id |-> id, data_type |-> dt]

\* The object get_op_by_out_lt returns when no op produces the tensor.
EmptyOp == [id |-> 0, kind |-> "", in_lts |-> <<>>, out_lts |-> <<>>,
            order |-> <<>>]

\* deserialized_op::empty()
empty(op) == op.kind = ""

\* deserialized_graph::get_op_by_out_lt: the op that has the tensor among
\* its outputs, the empty op when there is none.
get_op_by_out_lt(g, lt_id) ==
    LET producers == {k \in 1..Len(g) :
                         \E o \in 1..Len(g[k].out_lts) :
                             g[k].out_lts[o].id = lt_id}
    IN IF producers = {} THEN EmptyOp
       ELSE g[CHOOSE k \in producers : \A j \in producers : k <= j]

\* Id of the graph-level input tensor feeding slot s (0-based) of op k when
\* that slot is not fed by an earlier op.
ExtId(k, s) == 10 * k + s

\* Data type of the output of an op of the given kind and first input type.
OutType(kind, in_dt) ==
    IF kind = "Dequantize" THEN "f32"
    ELSE IF kind = "Quantize" THEN "u8"
    ELSE IF kind \in {"StaticTranspose", "StaticReshape"} THEN in_dt
    ELSE "f32"

\* The descriptor of a tensor as a new op of g reads it: the output of an
\* earlier op, or a graph-level (quantized) input.
InLT(g, id) ==
    IF id \in 1..Len(g) THEN g[id].out_lts[1] ELSE LT(id, "u8")

MakeOp(g, k, kind, ins) ==
    LET in_lts == [s \in 1..Len(ins) |-> InLT(g, ins[s])]
    IN [id |-> k, kind |-> kind, in_lts |-> in_lts,
        out_lts |-> <<LT(k, OutType(kind, in_lts[1].data_type))>>,
        order |-> IF kind = "StaticTranspose" THEN TransposeOrder ELSE <<>>]

\* The tensors slot s (0-based) of the op at position k may read: its own
\* graph-level input, or the output of the op before it (chronological
\* order).
SlotChoices(k, s) == {ExtId(k, s)} \cup ({k - 1} \ {0})

\* The ops that may follow the ops of g in a chronologically sorted graph.
NextOps(g) ==
    LET k == Len(g) + 1
    IN {MakeOp(g, k, kind, <<a>>) :
            kind \in UnaryKinds, a \in SlotChoices(k, 0)}
       \cup
       {MakeOp(g, k, kind, <<a, b>>) :
            kind \in BinaryKinds, a \in SlotChoices(k, 0),
            b \in SlotChoices(k, 1)}

RECURSIVE GraphsOfSize(_)
GraphsOfSize(n) ==
    IF n = 0 THEN {<<>>}
    ELSE UNION {{Append(g, op) : op \in NextOps(g)} : g \in GraphsOfSize(n - 1)}

\* Chronologically sorted graphs of 1..MaxOps ops; op k has id k and one
\* output tensor, of id k.
Graphs == UNION {GraphsOfSize(n) : n \in 1..MaxOps}

OpIds(g) == {g[k].id : k \in 1..Len(g)}

TensorIds(g) ==
    UNION {{g[k].in_lts[s].id : s \in 1..Len(g[k].in_lts)}
           \cup {g[k].out_lts[o].id : o \in 1..Len(g[k].out_lts)} :
           k \in 1..Len(g)}

----------------------------------------------------------------------------
(* Boundary scanner: partition_data_displacer_t's constructor *)

\* Variant: the two conditions joined by && instead of ||.
accept_dequantize_and(g, ids, parent_op) ==
    LET prev_parent_op == get_op_by_out_lt(g, parent_op.in_lts[1].id)
    IN empty(prev_parent_op) /\ prev_parent_op.id \notin ids

\* Variant: the membership test inverted (!= end() instead of == end()).
accept_dequantize_inside(g, ids, parent_op) ==
    LET prev_parent_op == get_op_by_out_lt(g, parent_op.in_lts[1].id)
    IN empty(prev_parent_op) \/ prev_parent_op.id \in ids

\* A Dequantize is accepted when the producer of its first input is absent
\* or is not an op of the partition.
accept_dequantize(g, ids, parent_op) ==
    LET prev_parent_op == get_op_by_out_lt(g, parent_op.in_lts[1].id)
    IN empty(prev_parent_op) \/ prev_parent_op.id \notin ids

\* Variant: the walk passes through ops of every kind.
continue_on_any(kind) == TRUE

\* "Continue only on allowed ops."
continue_walk(kind) == kind \in go_through_op_kind

\* The inner loop of the constructor for one input slot, started at the
\* tensor lt_id of the slot.  chain collects the ids of the producers the
\* loop visits.  The result tells how the loop ended and, when a Dequantize
\* was accepted, the tensor that is recorded.
RECURSIVE walk(_, _, _, _)
walk(g, ids, lt_id, chain) ==
    LET parent_op == get_op_by_out_lt(g, lt_id)
    IN IF empty(parent_op)
       THEN [chain |-> chain, end |-> "no_producer", lt |-> LT(0, "")]
       ELSE IF parent_op.kind = "Dequantize"
               /\ accept_dequantize(g, ids, parent_op)
       THEN [chain |-> Append(chain, parent_op.id), end |-> "accepted",
             lt |-> parent_op.in_lts[1]]
       ELSE IF ~continue_walk(parent_op.kind)
       THEN [chain |-> Append(chain, parent_op.id), end |-> "stopped",
             lt |-> LT(0, "")]
       ELSE walk(g, ids, parent_op.in_lts[1].id,
                 Append(chain, parent_op.id))

\* Variant: assignment through operator[], which replaces a present key.
emplace_overwrite(m, key, val) ==
    [k \in DOMAIN m \cup {key} |-> IF k = key THEN val ELSE m[k]]

\* std::unordered_map::emplace: no effect when the key is present.
emplace(m, key, val) ==
    IF key \in DOMAIN m THEN m
    ELSE [k \in DOMAIN m \cup {key} |-> IF k = key THEN val ELSE m[k]]

\* The loop over the input slots of the main op aop, from slot s (1-based
\* position of the 0-based slot s - 1) on.  st = [qd, walks].
RECURSIVE scan_slots(_, _, _, _, _)
scan_slots(g, ids, aop, s, st) ==
    IF s > Len(aop.in_lts) THEN st
    ELSE LET w == walk(g, ids, aop.in_lts[s].id, <<>>)
             rec == [aop |-> aop, i |-> s - 1, lt |-> w.lt]
             qd2 == IF w.end = "accepted"
                    THEN emplace(st.qd, w.lt.id, rec)
                    ELSE st.qd
             w2 == [aop |-> aop.id, i |-> s - 1, chain |-> w.chain,
                    end |-> w.end, lt |-> w.lt]
         IN scan_slots(g, ids, aop, s + 1,
                       [qd |-> qd2, walks |-> Append(st.walks, w2)])

\* The loop over dg_->ops_ from position k on.
RECURSIVE scan_ops(_, _, _, _)
scan_ops(g, ids, k, st) ==
    IF k > Len(g) THEN st
    ELSE IF g[k].id \notin ids THEN scan_ops(g, ids, k + 1, st)
    ELSE IF g[k].kind \notin main_op_kind THEN scan_ops(g, ids, k + 1, st)
    ELSE scan_ops(g, ids, k + 1, scan_slots(g, ids, g[k], 1, st))

NoMap == [k \in {} |-> 0]

\* The constructor: the boundary map and the walks it made.
scan(g, ids) == scan_ops(g, ids, 1, [qd |-> NoMap, walks |-> <<>>])

----------------------------------------------------------------------------
(* StaticTranspose order inversion *)

\* Index written by new_order[(order[i] + ndims) % ndims] for an entry v of
\* an order of length n (entries of a valid order lie in -n..n-1).
OrderIndex(v, n) == (v + n) % n

\* Variant: new_order[order[i]] = i, negative entries never matching an
\* index.
InvertOrderUnnormalized(order) ==
    LET ndims == Len(order)
        hits(j) == {i \in 1..ndims : order[i] = j}
    IN [j1 \in 1..ndims |->
           IF hits(j1 - 1) = {} THEN 0
           ELSE (CHOOSE i \in hits(j1 - 1) :
                     \A i2 \in hits(j1 - 1) : i2 <= i) - 1]

\* The StaticTranspose case of the reverse job: new_order starts as ndims
\* zeros and the loop stores i at index (order[i] + ndims) % ndims, for
\* i = 0..ndims-1 (a later store wins).  Entries and indices are 0-based,
\* sequence positions 1-based.
InvertOrder(order) ==
    LET ndims == Len(order)
        hits(j) == {i \in 1..ndims : OrderIndex(order[i], ndims) = j}
    IN [j1 \in 1..ndims |->
           IF hits(j1 - 1) = {} THEN 0
           ELSE (CHOOSE i \in hits(j1 - 1) :
                     \A i2 \in hits(j1 - 1) : i2 <= i) - 1]

\* What executing a StaticTranspose with the given order does to a sequence
\* with one element per axis: axis k of the result is axis order[k] of the
\* source, a negative order[k] counting from the end.
Permute(order, s) ==
    [k \in 1..Len(order) |-> s[OrderIndex(order[k], Len(order)) + 1]]

----------------------------------------------------------------------------
(* Displacement executor *)

\* opkind2driver, for the main op kinds.
opkind2driver(kind) ==
    IF kind = "MatMul" THEN "matmul"
    ELSE IF kind = "Convolution" THEN "conv"
    ELSE IF kind = "ConvTranspose" THEN "deconv"
    ELSE IF kind \in {"AvgPool", "MaxPool"} THEN "pool"
    ELSE "binary"

\* get_prim_arg_name_from_graph_op_input_offset: the primitive argument the
\* input slot of the main op stands for.
get_prim_arg_name_from_graph_op_input_offset(kind, offset) ==
    IF offset = 0 THEN "first_operand" ELSE "second_operand"

\* What the reference backend may report during one call.
BackendOutcomes ==
    {"ok", "prb_invalid_arguments", "prim_skipped", "prim_unimplemented",
     "prim_failed", "refmem_skipped", "refmem_unimplemented",
     "refmem_failed", "reorder_failed"}

\* The clone of the main op with the data types gen_quantize_filling sets.
coerce_data_types(main_op, dt) ==
    LET driver == opkind2driver(main_op.kind)
        in1 == [main_op.in_lts EXCEPT ![1].data_type = dt]
        in2 == IF Len(main_op.in_lts) > 1
               THEN [in1 EXCEPT ![2].data_type =
                        IF main_op.kind \in {"MatMul", "Convolution",
                                             "ConvTranspose"}
                           /\ dt = "u8"
                        THEN "s8" ELSE dt]
               ELSE in1
        out == IF driver \in {"pool", "binary"}
               THEN [main_op.out_lts EXCEPT ![1].data_type = dt]
               ELSE IF main_op.out_lts[1].data_type # "bf16"
               THEN [main_op.out_lts EXCEPT ![1].data_type = "f32"]
               ELSE main_op.out_lts
    IN [main_op EXCEPT !.in_lts = in2, !.out_lts = out]

NoBuffer == [fill |-> 0, arg |-> "", via |-> <<>>]

\* Variant: op is a reference to main_op instead of a clone.
gen_quantize_filling_inplace(main_op, arg, dt, bk) ==
    LET op == coerce_data_types(main_op, dt)
        filled == [fill |-> op.id, arg |-> arg, via |-> <<>>]
        R(ret, state, m) ==
            [ret |-> ret, state |-> state, mem |-> m, backend |-> 1,
             main_op |-> op]
    IN IF bk = "prb_invalid_arguments"
       THEN R("FAIL", "INVALID_ARGUMENTS", NoBuffer)
       ELSE IF bk = "prim_failed" THEN R("FAIL", "FAILED", NoBuffer)
       ELSE IF bk = "prim_skipped" THEN R("OK", "SKIPPED", NoBuffer)
       ELSE IF bk = "prim_unimplemented"
       THEN R("OK", "UNIMPLEMENTED", NoBuffer)
       ELSE IF bk = "refmem_failed" THEN R("FAIL", "FAILED", NoBuffer)
       ELSE IF bk = "refmem_skipped" THEN R("OK", "SKIPPED", NoBuffer)
       ELSE IF bk = "refmem_unimplemented"
       THEN R("OK", "UNIMPLEMENTED", NoBuffer)
       ELSE R("OK", "INITIALIZED", filled)

\* gen_quantize_filling: clones main_op, coerces the clone's data types,
\* runs the reference primitive of the clone and moves the buffer of the
\* requested argument into mem.  INVALID_ARGUMENTS after init_prb and a
\* failing init_prim or init_ref_memory_args end the call with FAIL; a
\* SKIPPED or UNIMPLEMENTED state ends it with OK and no buffer.  The
\* result carries the caller's main_op as the call leaves it.
gen_quantize_filling(main_op, arg, dt, bk) ==
    LET op == coerce_data_types(main_op, dt)
        filled == [fill |-> op.id, arg |-> arg, via |-> <<>>]
        R(ret, state, m) ==
            [ret |-> ret, state |-> state, mem |-> m, backend |-> 1,
             main_op |-> main_op]
    IN IF bk = "prb_invalid_arguments"
       THEN R("FAIL", "INVALID_ARGUMENTS", NoBuffer)
       ELSE IF bk = "prim_failed" THEN R("FAIL", "FAILED", NoBuffer)
       ELSE IF bk = "prim_skipped" THEN R("OK", "SKIPPED", NoBuffer)
       ELSE IF bk = "prim_unimplemented"
       THEN R("OK", "UNIMPLEMENTED", NoBuffer)
       ELSE IF bk = "refmem_failed" THEN R("FAIL", "FAILED", NoBuffer)
       ELSE IF bk = "refmem_skipped" THEN R("OK", "SKIPPED", NoBuffer)
       ELSE IF bk = "refmem_unimplemented"
       THEN R("OK", "UNIMPLEMENTED", NoBuffer)
       ELSE R("OK", "INITIALIZED", filled)

\* The copy of an op the reverse job executes: inputs and outputs swapped,
\* Quantize and Dequantize exchanged, a StaticTranspose order inverted.
\* The kind "" stands for the default case (no reverse execution).
reverse_op(op0) ==
    LET op == [op0 EXCEPT !.in_lts = op0.out_lts, !.out_lts = op0.in_lts]
    IN IF op.kind = "Quantize" THEN [op EXCEPT !.kind = "Dequantize"]
       ELSE IF op.kind = "Dequantize" THEN [op EXCEPT !.kind = "Quantize"]
       ELSE IF op.kind = "StaticTranspose"
       THEN [op EXCEPT !.order = InvertOrder(op.order)]
       ELSE IF op.kind \in {"TypeCast", "StaticReshape"} THEN op
       ELSE [op EXCEPT !.kind = ""]

\* "do the reverse job": the while loop of displace_input_data, from the
\* current tensor and buffer.  steps collects the reversed ops executed.
RECURSIVE reverse_job(_, _, _, _, _)
reverse_job(g, ids, tensor, buf, steps) ==
    LET parent_op == get_op_by_out_lt(g, tensor.id)
    IN IF empty(parent_op) \/ parent_op.id \notin ids
       THEN [ret |-> "OK", tensor |-> tensor, mem |-> buf, steps |-> steps]
       ELSE LET op == reverse_op(parent_op)
            IN IF op.kind = ""
               THEN [ret |-> "FAIL", tensor |-> tensor, mem |-> buf,
                     steps |-> steps]
               ELSE reverse_job(g, ids, op.out_lts[1],
                        [buf EXCEPT !.via = Append(@, op.kind)],
                        Append(steps, op))

\* Variant: no return on SKIPPED or UNIMPLEMENTED after the filling.
displace_input_data_no_skip_check(g, ids, qd, has_dg, lt_id, mem_in, bk) ==
    LET R(ret, state, m, steps, tensor, backend, reordered, qd2) ==
            [ret |-> ret, state |-> state, mem |-> m, steps |-> steps,
             tensor |-> tensor, backend |-> backend,
             reordered |-> reordered, quantize_displace |-> qd2, dg |-> g]
    IN IF ~has_dg
       THEN R("FAIL", "FAILED", mem_in, <<>>, lt_id, 0, FALSE, qd)
       ELSE IF lt_id \notin DOMAIN qd
       THEN R("OK", "UNTESTED", mem_in, <<>>, lt_id, 0, FALSE, qd)
       ELSE
         LET displace == qd[lt_id]
             main_op_arg == get_prim_arg_name_from_graph_op_input_offset(
                                displace.aop.kind, displace.i)
             f == gen_quantize_filling(displace.aop, main_op_arg,
                                       displace.lt.data_type, bk)
             qd2 == [qd EXCEPT ![lt_id].aop = f.main_op]
         IN IF f.ret # "OK"
            THEN R("FAIL", f.state, mem_in, <<>>, displace.lt.id,
                   f.backend, FALSE, qd2)
            ELSE
              LET r == reverse_job(g, ids, displace.lt, f.mem, <<>>)
                  n == f.backend + Len(r.steps)
              IN IF r.ret # "OK"
                 THEN R("FAIL", f.state, mem_in, r.steps, r.tensor.id, n,
                        FALSE, qd2)
                 ELSE IF bk = "reorder_failed"
                 THEN R("FAIL", f.state, mem_in, r.steps, r.tensor.id, n,
                        FALSE, qd2)
                 ELSE R("OK", f.state, r.mem, r.steps, r.tensor.id, n,
                        TRUE, qd2)

\* displace_input_data(lt_id, mem, res) under the backend behaviour bk.
\* The result carries the return value, res->state, the target buffer, the
\* reversed ops executed, the tensor the reverse job ended on, the number
\* of reference primitives created, whether mem.reorder ran, and the
\* boundary map and graph as the call leaves them.
displace_input_data(g, ids, qd, has_dg, lt_id, mem_in, bk) ==
    LET R(ret, state, m, steps, tensor, backend, reordered, qd2) ==
            [ret |-> ret, state |-> state, mem |-> m, steps |-> steps,
             tensor |-> tensor, backend |-> backend,
             reordered |-> reordered, quantize_displace |-> qd2, dg |-> g]
    IN IF ~has_dg
       THEN R("FAIL", "FAILED", mem_in, <<>>, lt_id, 0, FALSE, qd)
       ELSE IF lt_id \notin DOMAIN qd
       THEN R("OK", "UNTESTED", mem_in, <<>>, lt_id, 0, FALSE, qd)
       ELSE
         LET displace == qd[lt_id]
             main_op_arg == get_prim_arg_name_from_graph_op_input_offset(
                                displace.aop.kind, displace.i)
             f == gen_quantize_filling(displace.aop, main_op_arg,
                                       displace.lt.data_type, bk)
             qd2 == [qd EXCEPT ![lt_id].aop = f.main_op]
         IN IF f.ret # "OK"
            THEN R("FAIL", f.state, mem_in, <<>>, displace.lt.id,
                   f.backend, FALSE, qd2)
            ELSE IF f.state \in {"SKIPPED", "UNIMPLEMENTED"}
            THEN R("OK", f.state, mem_in, <<>>, displace.lt.id,
                   f.backend, FALSE, qd2)
            ELSE
              LET r == reverse_job(g, ids, displace.lt, f.mem, <<>>)
                  n == f.backend + Len(r.steps)
              IN IF r.ret # "OK"
                 THEN R("FAIL", f.state, mem_in, r.steps, r.tensor.id, n,
                        FALSE, qd2)
                 ELSE IF bk = "reorder_failed"
                 THEN R("FAIL", f.state, mem_in, r.steps, r.tensor.id, n,
                        FALSE, qd2)
                 ELSE R("OK", f.state, r.mem, r.steps, r.tensor.id, n,
                        TRUE, qd2)

----------------------------------------------------------------------------
(* State machine of the displacer *)

PriorContents == [fill |-> 0, arg |-> "prior", via |-> <<>>]

NoCall == [lt |-> 0, ret |-> "none", state |-> "UNTESTED", steps |-> <<>>,
           tensor |-> 0, backend |-> 0, reordered |-> FALSE]

PermIdle == [pc |-> "idle", order |-> <<>>, seq |-> <<>>,
             new_order |-> <<>>, twice |-> <<>>, back |-> <<>>]

WalkIdle == [pc |-> "idle", aop |-> 0, i |-> 0, from |-> 0, lt |-> 0,
             chain |-> <<>>, end |-> "", rec |-> LT(0, "")]

\* Before construction: a deserialized graph exists, no displacer yet.
Init ==
    /\ dg \in Graphs
    /\ dg_set = FALSE
    /\ op_ids_set = {}
    /\ quantize_displace = NoMap
    /\ walks = <<>>
    /\ mem = PriorContents
    /\ call = NoCall
    /\ perm = PermIdle
    /\ wk = WalkIdle

\* partition_data_displacer_t(dg, par), par a set of ops of the graph.
Construct ==
    /\ ~dg_set
    /\ \E par \in SUBSET OpIds(dg) :
          LET st == scan(dg, par)
          IN /\ op_ids_set' = par
             /\ quantize_displace' = st.qd
             /\ walks' = st.walks
    /\ dg_set' = TRUE
    /\ UNCHANGED <<dg, mem, call, perm, wk>>

\* displace_input_data(lt_id, mem, res) on a constructed displacer, for a
\* tensor of the graph, a target buffer holding the driver's own filling
\* and some behaviour of the reference backend.
Displace ==
    /\ dg_set
    /\ \E lt_id \in TensorIds(dg) :
       \E bk \in IF lt_id \in DOMAIN quantize_displace
                 THEN BackendOutcomes ELSE {"ok"} :
          LET r == displace_input_data(dg, op_ids_set, quantize_displace,
                                       dg_set, lt_id, PriorContents, bk)
          IN /\ mem' = r.mem
             /\ dg' = r.dg
             /\ quantize_displace' = r.quantize_displace
             /\ call' = [lt |-> lt_id, ret |-> r.ret, state |-> r.state,
                         steps |-> r.steps, tensor |-> r.tensor,
                         backend |-> r.backend, reordered |-> r.reordered]
    /\ UNCHANGED <<dg_set, op_ids_set, walks, perm, wk>>

Next == Construct \/ Displace

Spec == Init /\ [][Next]_vars

----------------------------------------------------------------------------
(* State machine of the StaticTranspose reversal alone *)

\* Order entry v of an order of length n, written without negative indices.
Normalized(order) ==
    [k \in 1..Len(order) |-> OrderIndex(order[k], Len(order))]

\* The valid orders of length n: every axis 0..n-1 named once, each either
\* as itself or as the negative index counting from the end.
ValidOrders(n) ==
    {o \in [1..n -> (0 - n)..(n - 1)] :
        \A j \in 0..(n - 1) : \E k \in 1..n : OrderIndex(o[k], n) = j}

SeqValues == {"a", "b"}

\* A StaticTranspose op with the given order, as the reverse job finds it.
TransposeOp(order) ==
    [id |-> 1, kind |-> "StaticTranspose", in_lts |-> <<LT(10, "u8")>>,
     out_lts |-> <<LT(1, "u8")>>, order |-> order]

InitPerm ==
    /\ dg = <<>>
    /\ dg_set = FALSE
    /\ op_ids_set = {}
    /\ quantize_displace = NoMap
    /\ walks = <<>>
    /\ mem = PriorContents
    /\ call = NoCall
    /\ wk = WalkIdle
    /\ \E n \in 0..MaxPermLen :
       \E o \in ValidOrders(n), s \in [1..n -> SeqValues] :
          perm = [pc |-> "start", order |-> o, seq |-> s,
                  new_order |-> <<>>, twice |-> <<>>, back |-> <<>>]

\* The reverse job reverses a StaticTranspose carrying perm.order.
ReverseTranspose ==
    /\ perm.pc = "start"
    /\ perm' = [perm EXCEPT !.pc = "inverted",
                   !.new_order = reverse_op(TransposeOp(perm.order)).order]
    /\ UNCHANGED <<dg, dg_set, op_ids_set, quantize_displace, walks, mem, call,
                   wk>>

\* The reversed StaticTranspose is reversed once more.
ReverseAgain ==
    /\ perm.pc = "inverted"
    /\ perm' = [perm EXCEPT !.pc = "twice",
                   !.twice = reverse_op(TransposeOp(perm.new_order)).order]
    /\ UNCHANGED <<dg, dg_set, op_ids_set, quantize_displace, walks, mem, call,
                   wk>>

\* The forward StaticTranspose, then the reversed one, run on perm.seq.
ExecuteBoth ==
    /\ perm.pc = "twice"
    /\ perm' = [perm EXCEPT !.pc = "done",
                   !.back = Permute(perm.new_order,
                                    Permute(perm.order, perm.seq))]
    /\ UNCHANGED <<dg, dg_set, op_ids_set, quantize_displace, walks, mem, call,
                   wk>>

NextPerm == ReverseTranspose \/ ReverseAgain \/ ExecuteBoth

SpecPerm == InitPerm /\ [][NextPerm]_vars

----------------------------------------------------------------------------
(* State machine of one backward walk of the scan, iteration by iteration *)

\* Variant: the loop steps to the producer's output, lt = &out_lts_[0].
next_lt_output(parent_op) == parent_op.out_lts[1]

\* The step of the inner for loop: lt = &parent_op->in_lts_[0].
next_lt(parent_op) == parent_op.in_lts[1]

\* One iteration of the inner for loop on the walk state w: look up the
\* producer of the current tensor, then break (no producer, an accepted
\* Dequantize, a kind that is not passed through) or step to the
\* producer's first input.
walk_step(g, ids, w) ==
    LET parent_op == get_op_by_out_lt(g, w.lt)
    IN IF empty(parent_op)
       THEN [w EXCEPT !.pc = "done", !.end = "no_producer"]
       ELSE IF parent_op.kind = "Dequantize"
               /\ accept_dequantize(g, ids, parent_op)
       THEN [w EXCEPT !.pc = "done", !.end = "accepted",
                      !.chain = Append(@, parent_op.id),
                      !.rec = parent_op.in_lts[1]]
       ELSE IF ~continue_walk(parent_op.kind)
       THEN [w EXCEPT !.pc = "done", !.end = "stopped",
                      !.chain = Append(@, parent_op.id)]
       ELSE [w EXCEPT !.lt = next_lt(parent_op).id,
                      !.chain = Append(@, parent_op.id)]

\* The constructor has stored the graph and the partition's op ids and is
\* about to scan.
InitWalk ==
    /\ dg \in Graphs
    /\ dg_set = TRUE
    /\ op_ids_set \in SUBSET OpIds(dg)
    /\ quantize_displace = NoMap
    /\ walks = <<>>
    /\ mem = PriorContents
    /\ call = NoCall
    /\ perm = PermIdle
    /\ wk = WalkIdle

\* The scan reaches input slot i of a main op of the partition and enters
\* the inner loop at that slot's tensor.
StartWalk ==
    /\ wk.pc = "idle"
    /\ \E k \in 1..Len(dg) :
          /\ dg[k].id \in op_ids_set
          /\ dg[k].kind \in main_op_kind
          /\ \E s \in 1..Len(dg[k].in_lts) :
                 wk' = [WalkIdle EXCEPT !.pc = "walking", !.aop = dg[k].id,
                                        !.i = s - 1,
                                        !.from = dg[k].in_lts[s].id,
                                        !.lt = dg[k].in_lts[s].id]
    /\ UNCHANGED <<dg, dg_set, op_ids_set, quantize_displace, walks, mem, call,
                   perm>>

\* One iteration of the inner loop; an accepted Dequantize is recorded.
WalkStep ==
    /\ wk.pc = "walking"
    /\ wk' = walk_step(dg, op_ids_set, wk)
    /\ quantize_displace' =
           IF wk'.end = "accepted"
           THEN emplace(quantize_displace, wk'.rec.id,
                        [aop |-> dg[wk.aop], i |-> wk.i, lt |-> wk'.rec])
           ELSE quantize_displace
    /\ UNCHANGED <<dg, dg_set, op_ids_set, walks, mem, call, perm>>

NextWalk == StartWalk \/ WalkStep

\* The loop is straight-line code of one thread: an iteration that can run
\* does run.
SpecWalk == InitWalk /\ [][NextWalk]_vars /\ WF_vars(WalkStep)

----------------------------------------------------------------------------
(* Vocabulary of the properties *)

\* The main compute kinds and the transparent kinds of the op vocabulary.
MainKinds ==
    {"Convolution", "ConvTranspose", "AvgPool", "MaxPool", "MatMul", "Add",
     "Divide", "Maximum", "Minimum", "Multiply", "Subtract"}

TransparentKinds ==
    {"StaticTranspose", "StaticReshape", "TypeCast", "Quantize", "Dequantize"}

OpOf(id) == dg[CHOOSE k \in 1..Len(dg) : dg[k].id = id]

Producer(lt_id) == get_op_by_out_lt(dg, lt_id)

\* The producer of the op's first input is absent or outside the partition.
ProducerAbsentOrOutside(op) ==
    LET p == Producer(op.in_lts[1].id)
    IN empty(p) \/ p.id \notin op_ids_set

\* A Dequantize whose input producer is an op of the partition.
RejectedDequantize(op) ==
    op.kind = "Dequantize" /\ ~ProducerAbsentOrOutside(op)

WalkIds == 1..Len(walks)

Keys == DOMAIN quantize_displace

Called == call.ret # "none"

----------------------------------------------------------------------------
(* C1 *)

\* C1: a Dequantize reached by a backward walk of the scan has its input
\* tensor id among the keys of the boundary map if and only if the producer
\* of its first input is absent from the graph or not in the partition; in
\* particular no record is keyed by it when that producer is inside.
C1_BoundaryAcceptance ==
    dg_set =>
        \A w \in WalkIds : \A c \in 1..Len(walks[w].chain) :
            LET D == OpOf(walks[w].chain[c])
            IN D.kind = "Dequantize" =>
                   (D.in_lts[1].id \in Keys <=> ProducerAbsentOrOutside(D))

\* A walk reached a Dequantize whose input is produced by an op outside the
\* partition, and its input tensor is a key.
C1_Witness ==
    /\ dg_set
    /\ \E w \in WalkIds : \E c \in 1..Len(walks[w].chain) :
           LET D == OpOf(walks[w].chain[c])
           IN /\ D.kind = "Dequantize"
              /\ ~empty(Producer(D.in_lts[1].id))
              /\ Producer(D.in_lts[1].id).id \notin op_ids_set
              /\ D.in_lts[1].id \in Keys

----------------------------------------------------------------------------
(* C2 *)

\* The walk the scan made for slot i of the op with id aop.
WalkOf(aop, i) ==
    walks[CHOOSE w \in WalkIds : walks[w].aop = aop /\ walks[w].i = i]

\* chain is the sequence of producers met from tensor lt_id upwards, each
\* the producer of the first input of the one before.
IsProducerChain(lt_id, chain) ==
    /\ Len(chain) >= 1
    /\ chain[1] = Producer(lt_id).id
    /\ \A c \in 1..(Len(chain) - 1) :
           chain[c + 1] = Producer(OpOf(chain[c]).in_lts[1].id).id

\* C2: every record t -> (aop, i, lt) has a main-kind op of the partition
\* as aop, and the ops visited from aop's slot i up to the boundary are all
\* of transparent kinds, the last a Dequantize whose first input is t = lt
\* and whose input producer is absent or outside the partition.
C2_ChainInvariant ==
    dg_set =>
        \A t \in Keys :
            LET r == quantize_displace[t]
                chain == WalkOf(r.aop.id, r.i).chain
                last == OpOf(chain[Len(chain)])
            IN /\ r.aop.kind \in MainKinds
               /\ r.aop.id \in op_ids_set
               /\ r.aop = OpOf(r.aop.id)
               /\ r.i \in 0..(Len(r.aop.in_lts) - 1)
               /\ r.lt.id = t
               /\ IsProducerChain(r.aop.in_lts[r.i + 1].id, chain)
               /\ \A c \in 1..Len(chain) :
                      OpOf(chain[c]).kind \in TransparentKinds
               /\ last.kind = "Dequantize"
               /\ last.in_lts[1] = r.lt
               /\ ProducerAbsentOrOutside(last)

\* A record whose chain passes a transparent op before its Dequantize.
C2_Witness ==
    /\ dg_set
    /\ \E t \in Keys :
           LET r == quantize_displace[t]
           IN Len(WalkOf(r.aop.id, r.i).chain) >= 2

----------------------------------------------------------------------------
(* C3 *)

\* The walks that ended by accepting a Dequantize with input tensor t.
Discoveries(t) ==
    {w \in WalkIds : walks[w].end = "accepted" /\ walks[w].lt.id = t}

\* C3: the walks are made in scan order (ops in graph order, slots in
\* increasing index), every boundary tensor id has one record, and it is
\* the record of the first walk that discovered it: a later discovery of
\* the same id changes neither the main op, the slot nor the descriptor.
C3_FirstWins ==
    dg_set =>
        /\ \A w1, w2 \in WalkIds :
               w1 < w2 =>
                   \/ walks[w1].aop < walks[w2].aop
                   \/ walks[w1].aop = walks[w2].aop
                      /\ walks[w1].i < walks[w2].i
        /\ \A w \in WalkIds : walks[w].end = "accepted" => walks[w].lt.id \in Keys
        /\ \A t \in Keys :
               /\ Discoveries(t) # {}
               /\ LET first == CHOOSE w \in Discoveries(t) :
                                   \A w2 \in Discoveries(t) : w <= w2
                  IN /\ quantize_displace[t].aop = OpOf(walks[first].aop)
                     /\ quantize_displace[t].i = walks[first].i
                     /\ quantize_displace[t].lt = walks[first].lt

\* Some boundary tensor id was discovered by two walks.
C3_Witness ==
    /\ dg_set
    /\ \E t \in Keys : Cardinality(Discoveries(t)) >= 2

----------------------------------------------------------------------------
(* C4 *)

\* Tensor lt_id is produced by a Dequantize, or by a transparent op whose
\* first input traces back to one.
RECURSIVE TracesToDequantize(_)
TracesToDequantize(lt_id) ==
    LET p == Producer(lt_id)
    IN /\ ~empty(p)
       /\ p.kind \in TransparentKinds
       /\ \/ p.kind = "Dequantize"
          \/ TracesToDequantize(p.in_lts[1].id)

NoDequantizeChain ==
    \A k \in 1..Len(dg) :
        (dg[k].id \in op_ids_set /\ dg[k].kind \in MainKinds) =>
            \A s \in 1..Len(dg[k].in_lts) :
                ~TracesToDequantize(dg[k].in_lts[s].id)

\* C4: when no input slot of a main op of the partition traces back through
\* transparent ops to a Dequantize, the boundary map is empty and every
\* displace_input_data call returns OK, leaves the target buffer as it was
\* and creates no reference primitive.
C4_NoChainNoOp ==
    (dg_set /\ NoDequantizeChain) =>
        /\ Keys = {}
        /\ Called =>
               /\ call.ret = "OK"
               /\ mem = PriorContents
               /\ call.backend = 0
               /\ ~call.reordered

\* displace_input_data was called on a partition that holds a scanned main
\* op, none of whose slots traces back to a Dequantize.
C4_Witness ==
    /\ dg_set
    /\ NoDequantizeChain
    /\ walks # <<>>
    /\ call.ret = "OK"

----------------------------------------------------------------------------
(* C5 *)

\* The chain external input -> StaticTranspose(order = [1, 0, 2]) ->
\* Dequantize -> MatMul: tensor 10 is the graph-level input, 1 the
\* Dequantize's input, 2 the MatMul's first input.
Chain4 ==
    LET g1 == <<MakeOp(<<>>, 1, "StaticTranspose", <<ExtId(1, 0)>>)>>
        g2 == Append(g1, MakeOp(g1, 2, "Dequantize", <<1>>))
    IN Append(g2, MakeOp(g2, 3, "MatMul", <<2, ExtId(3, 1)>>))

IsChain4 == dg_set /\ dg = Chain4 /\ op_ids_set = {1, 2, 3}

StepKinds == [k \in 1..Len(call.steps) |-> call.steps[k].kind]

----------------------------------------------------------------------------
(* C6 *)

\* C6: a call on a recorded boundary during which the reference backend
\* reported SKIPPED or UNIMPLEMENTED in gen_quantize_filling returns OK,
\* runs no reversed op and no reorder, and leaves the target buffer as the
\* caller filled it.
C6_SkippedIsNoOp ==
    (dg_set /\ Called /\ call.lt \in Keys
        /\ call.state \in {"SKIPPED", "UNIMPLEMENTED"}) =>
        /\ call.ret = "OK"
        /\ call.steps = <<>>
        /\ ~call.reordered
        /\ mem = PriorContents

\* A call on a recorded boundary met a backend that skipped the case.
C6_Witness ==
    /\ dg_set
    /\ call.lt \in Keys
    /\ call.state = "SKIPPED"
    /\ call.ret = "OK"

----------------------------------------------------------------------------
(* C7 *)

\* C7 as stated: reversing a valid order twice gives the order back, also
\* when it is written with negative indices, and running the order and
\* then its reversal on a sequence gives the sequence back.
C7_AsStated ==
    /\ perm.pc \in {"twice", "done"} => perm.twice = perm.order
    /\ perm.pc = "done" => perm.back = perm.seq

\* C7 amended: new_order holds k at index (order[k] + n) % n; reversing a
\* valid order twice gives the order with its negative indices normalized
\* modulo n, hence the order itself when it has none; running the order and
\* then its reversal on a sequence gives the sequence back.
C7_InversionLaw ==
    LET n == Len(perm.order)
    IN /\ perm.pc \in {"inverted", "twice", "done"} =>
              /\ Len(perm.new_order) = n
              /\ \A k \in 1..n :
                     perm.new_order[OrderIndex(perm.order[k], n) + 1] = k - 1
       /\ perm.pc \in {"twice", "done"} =>
              /\ perm.twice = Normalized(perm.order)
              /\ (\A k \in 1..n : perm.order[k] >= 0) =>
                     perm.twice = perm.order
       /\ perm.pc = "done" => perm.back = perm.seq

\* An order with a negative index was reversed twice and run both ways.
C7_Witness ==
    /\ perm.pc = "done"
    /\ \E k \in 1..Len(perm.order) : perm.order[k] < 0
    /\ perm.new_order # Normalized(perm.order)

----------------------------------------------------------------------------
(* C8 *)

\* C8: once the displacer is constructed, no step changes the graph, the
\* partition's op-id set or the boundary map.
C8_ReadOnlyAfterScan ==
    [][dg_set =>
          /\ dg' = dg
          /\ op_ids_set' = op_ids_set
          /\ quantize_displace' = quantize_displace]_vars

\* A call synthesized data from a clone of the main op whose data types had
\* to be coerced, and wrote the target buffer.
C8_Witness ==
    /\ dg_set
    /\ call.ret = "OK"
    /\ call.reordered
    /\ call.lt \in Keys
    /\ LET r == quantize_displace[call.lt]
       IN coerce_data_types(r.aop, r.lt.data_type) # r.aop

----------------------------------------------------------------------------
(* C9 *)

----------------------------------------------------------------------------
(* C10 *)

\* C10: for a Subtract op of the partition with an input slot produced by a
\* Dequantize whose own input has no producer or a producer outside the
\* partition, the boundary map has a record at that Dequantize's input
\* tensor id.
C10_SubtractScanned ==
    dg_set =>
        \A k \in 1..Len(dg) :
            (dg[k].id \in op_ids_set /\ dg[k].kind = "Subtract") =>
                \A s \in 1..Len(dg[k].in_lts) :
                    LET D == Producer(dg[k].in_lts[s].id)
                    IN (D.kind = "Dequantize" /\ ProducerAbsentOrOutside(D))
                           => D.in_lts[1].id \in Keys

----------------------------------------------------------------------------
(* C11 *)

\* C11: a displace_input_data call on a tensor id recorded in the boundary
\* map runs no iteration of the reverse job: no reversed op is executed,
\* the current tensor stays the recorded one, at most the filling's
\* reference primitive is created, and when the call reorders into the
\* target it is the synthesized buffer itself that lands there.
C11_ReverseJobNeverRuns ==
    (dg_set /\ Called /\ call.lt \in Keys) =>
        /\ call.steps = <<>>
        /\ call.tensor = call.lt
        /\ call.backend = 1
        /\ call.reordered =>
               /\ mem.via = <<>>
               /\ mem.fill = quantize_displace[call.lt].aop.id

\* A call displaced a recorded tensor whose producer exists outside the
\* partition, so that the loop condition was decided by the partition test.
C11_Witness ==
    /\ dg_set
    /\ call.lt \in Keys
    /\ call.ret = "OK"
    /\ call.reordered
    /\ ~empty(Producer(call.lt))
    /\ Producer(call.lt).id \notin op_ids_set

----------------------------------------------------------------------------
(* C12 *)

\* What holds of a walk at every iteration: the ops visited are each
\* strictly earlier in the graph than the one before (the first earlier
\* than the main op), and each is the producer of the first input of the
\* one before (of the slot's tensor for the first).
WalkDescends ==
    wk.pc \in {"walking", "done"} =>
        /\ Len(wk.chain) < wk.aop
        /\ \A c \in 1..Len(wk.chain) :
               /\ wk.chain[c] < (IF c = 1 THEN wk.aop ELSE wk.chain[c - 1])
               /\ wk.chain[c] =
                      Producer(IF c = 1 THEN wk.from
                               ELSE OpOf(wk.chain[c - 1]).in_lts[1].id).id

\* How a finished walk ended: at a tensor without producer, at an accepted
\* Dequantize, or at a producer of non-transparent kind; the result is the
\* one the scan's walk computes.
WalkEnds ==
    wk.pc = "done" =>
        LET n == Len(wk.chain)
        IN /\ \/ wk.end = "no_producer" /\ empty(Producer(wk.lt))
              \/ /\ wk.end = "accepted" /\ n >= 1
                 /\ OpOf(wk.chain[n]).kind = "Dequantize"
                 /\ ProducerAbsentOrOutside(OpOf(wk.chain[n]))
              \/ /\ wk.end = "stopped" /\ n >= 1
                 /\ OpOf(wk.chain[n]).kind \notin TransparentKinds
           /\ LET w == walk(dg, op_ids_set, wk.from, <<>>)
              IN w.chain = wk.chain /\ w.end = wk.end /\ w.lt = wk.rec

\* C12: on the chronologically sorted graphs, every backward walk of a main
\* op's input slot terminates: each iteration moves to a strictly earlier
\* op along the producer's first input, and the walk ends at a tensor with
\* no producer, at an accepted Dequantize or at a producer of
\* non-transparent kind.
C12_WalkTerminates ==
    /\ [](WalkDescends /\ WalkEnds)
    /\ (wk.pc = "walking") ~> (wk.pc = "done")

\* A walk passed a transparent op and ended at a non-transparent producer.
C12_Witness ==
    /\ wk.pc = "done"
    /\ wk.end = "stopped"
    /\ Len(wk.chain) >= 2

====
